---- MODULE Spec2Model ----
(***************************************************************************)
(* Model of streamlit-dashboard.py: the Streamlit script main() that is    *)
(* re-executed on every render cycle, its session-state cache              *)
(* (st.session_state.data / last_refresh), the three HTTP calls            *)
(* (load_token_data, add_token, delete_token) and the RSI cell styling of  *)
(* style_dataframe.                                                        *)
(*                                                                         *)
(* A run of main() is split at the points where the script blocks          *)
(* (time.sleep, network calls) or leaves through st.rerun()/return:        *)
(*   add_section   lines 185-198   "Add New Token" expander                *)
(*   add_rerun     lines 195-196   sleep(1); st.rerun() after a good add   *)
(*   refresh       lines 201-232   staleness check, fetch, processing      *)
(*   display       lines 234-285   table, Manage Tokens, Quick Reference   *)
(*   delete_rerun  lines 262-263   sleep(1); st.rerun() after a good delete*)
(*   auto_refresh  lines 288-289   sleep(0.1); st.rerun()                  *)
(*   returned      line  232       main() returned, the script finished    *)
(***************************************************************************)
EXTENDS Integers, Sequences, FiniteSets, TLC

\* ---------------------------------------------------------------- bounds
StartTime == 100          \* value of time.time() when the session starts
MaxTime == 220            \* the clock is not advanced past this value
TimeSteps == {59, 60}     \* amounts by which the clock advances

Addrs == {"a1", "a2"}     \* token addresses known to the model
AddrOrder == <<"a1", "a2">>
Prices == {"1.5", "2.5"}  \* current_price values the service reports

\* ------------------------------------------------------------- constants
REFRESH_INTERVAL == 60

NaN == "NaN"              \* pandas fill value for a key absent from a record
None == "None"            \* value of a column added by main()

\* ------------------------------------------------------- helper operators
Range(s) == {s[i] : i \in 1..Len(s)}

\* pd.DataFrame(): no columns, no rows
EmptyFrame == [columns |-> <<>>, rows |-> <<>>]

\* DataFrame.empty: some axis has length 0
Empty(df) == Len(df.columns) = 0 \/ Len(df.rows) = 0

\* list.insert(-1, x): x goes in front of the last element
InsertBeforeLast(s, x) == SubSeq(s, 1, Len(s) - 1) \o <<x>> \o SubSeq(s, Len(s), Len(s))

\* ------------------------------------------------------ the remote service
\* One record of GET /tokens/status.  Token a1 carries RSI columns, a2 does
\* not (yet); both carry the column 'active', which the dashboard drops.
TokenRecord(a, p) ==
    IF a = "a1"
    THEN [token_name |-> "n_a1", token_address |-> a, current_price |-> p,
          rsi_1m |-> "75.0", rsi_1h |-> "65.0",
          last_update |-> "t", active |-> "true"]
    ELSE [token_name |-> "n_a2", token_address |-> a, current_price |-> p,
          active |-> "true"]

RECURSIVE ListFrom(_, _, _)
ListFrom(i, listed, pr) ==
    IF i > Len(AddrOrder) THEN <<>>
    ELSE (IF AddrOrder[i] \in listed
          THEN <<TokenRecord(AddrOrder[i], pr)>>
          ELSE <<>>) \o ListFrom(i + 1, listed, pr)

\* the value of response.json()['tokens'] when the service is well behaved
TokenList(listed, pr) == ListFrom(1, listed, pr)

\* A response: an exception raised by requests (exc), or a status code and,
\* for GET, the decoded 'tokens' value: a list (kind "list") or a JSON value
\* that is not tabular, e.g. a number or a string (kind "scalar").
\* The 'tokens' values modelled are the lists of records of the service's
\* interface and the values on which pd.DataFrame raises (the case lines
\* 230-232 handle); a JSON object of columns is not modelled.
AddStatuses == {201, 200, 400, 500}
DeleteStatuses == {200, 201, 404, 500}
GetStatuses == {200, 500}

Exc == [exc |-> TRUE, status_code |-> 0, tokens |-> [kind |-> "list", items |-> <<>>]]
Status(c) == [exc |-> FALSE, status_code |-> c, tokens |-> [kind |-> "list", items |-> <<>>]]
Body(c, k, l) == [exc |-> FALSE, status_code |-> c, tokens |-> [kind |-> k, items |-> l]]


\* ------------------------------------------------------------ HTTP calls
\* load_token_data: the 'tokens' value for a 200 answer, [] for any other
\* status and for any exception (request failure, body without 'tokens').
load_token_data(resp) ==
    IF ~resp.exc /\ resp.status_code = 200
    THEN resp.tokens
    ELSE [kind |-> "list", items |-> <<>>]

\* the st.error raised by load_token_data
load_token_data_error(resp) ==
    IF resp.exc THEN {"Error loading data"}
    ELSE IF resp.status_code # 200 THEN {"Failed to fetch token data"}
    ELSE {}

\* add_token accepting any 2xx answer it is given
add_token_any_2xx(resp) == ~resp.exc /\ resp.status_code \in {200, 201}

\* add_token: True exactly for status 201
add_token(resp) == ~resp.exc /\ resp.status_code = 201

\* delete_token: True exactly for status 200
delete_token(resp) == ~resp.exc /\ resp.status_code = 200

\* ------------------------------------------------------- refresh of main()
\* the staleness check of line 202 without the interval
RefreshDueAlways(current_time, lr) == current_time - lr >= 0

\* line 202
RefreshDue(current_time, lr) == current_time - lr >= REFRESH_INTERVAL

\* line 204 without the test for an empty answer
TruthyAlways(d) == TRUE

\* line 204, `if data:`: a non-empty list, or any non-zero scalar
Truthy(d) == d.kind = "scalar" \/ d.items # <<>>

\* pd.DataFrame(data) raises for a value that is not tabular
ProcessingRaises(d) == d.kind = "scalar"

BaseColumns == <<"token_name", "token_address", "current_price",
                 "price_change_30m", "price_change_24h", "last_update">>

\* df.columns of pd.DataFrame(list of dicts): the union of the keys
FrameColumns(items) == UNION {DOMAIN items[i] : i \in 1..Len(items)}

\* lines 208-219
RequiredColumns(items) ==
    LET cols == FrameColumns(items)
        anyRsi == \E c \in cols : c \in {"rsi_1m", "rsi_1h"}
        r1 == IF anyRsi /\ "rsi_1m" \in cols
              THEN InsertBeforeLast(BaseColumns, "rsi_1m") ELSE BaseColumns
        r2 == IF anyRsi /\ "rsi_1h" \in cols
              THEN InsertBeforeLast(r1, "rsi_1h") ELSE r1
    IN  r2

\* lines 206-227: the frame stored in the cache
ProcessData(items) ==
    LET cols == FrameColumns(items)
        req == RequiredColumns(items)
    IN  [columns |-> req,
         rows |-> [i \in 1..Len(items) |->
                     [c \in Range(req) |->
                        IF c \in DOMAIN items[i] THEN items[i][c]
                        ELSE IF c \in cols THEN NaN ELSE None]]]

\* lines 203-229 with the cache cleared when nothing usable was fetched
SnapshotAfterClearing(old, d) ==
    IF Truthy(d) /\ ~ProcessingRaises(d) THEN ProcessData(d.items) ELSE EmptyFrame

\* lines 203-229: the cache after the fetch returned d at time current_time
SnapshotAfter(old, d) ==
    IF Truthy(d) /\ ~ProcessingRaises(d) THEN ProcessData(d.items) ELSE old

TimestampAfter(oldlr, d, current_time) ==
    IF Truthy(d) /\ ~ProcessingRaises(d) THEN current_time ELSE oldlr

\* addresses of the rows of a frame (the keys of the Delete buttons)
RowAddrs(df) == {df.rows[i]["token_address"] : i \in 1..Len(df.rows)}

\* ------------------------------------------------- style_dataframe (95-176)
MaxRsi == 100             \* largest cell value drawn
MinCell == 2              \* cell values are drawn from -MinCell..MaxRsi

StyledColumns == {"rsi_1m", "rsi_1h", "price_change_30m", "current_price"}

\* a raw cell of the cached frame: a number, None, or text that is no number
RawCells == [kind : {"num"}, n : (0 - MinCell)..MaxRsi]
              \cup [kind : {"none", "text"}, n : {0}]

\* line 105, pd.to_numeric(errors='coerce'): what is no number becomes NaN
to_numeric(raw) == [nan |-> raw.kind # "num", n |-> raw.n]

\* lines 108-119; a CSS string is the sequence of its declarations
style_rsi(val) ==
    IF val.nan THEN <<>>
    ELSE IF val.n >= 70 THEN << <<"background-color", "#ff7f7f">> >>
    ELSE IF val.n >= 60 THEN << <<"background-color", "#ffb07f">> >>
    ELSE <<>>

\* lines 121-132
style_price_change(val) ==
    IF val.nan THEN <<>>
    ELSE IF val.n > 0 THEN << <<"color", "#00ff00">> >>
    ELSE IF val.n < 0 THEN << <<"color", "#ff0000">> >>
    ELSE <<>>

\* lines 166-170, Styler.set_properties on every cell
GeneralProperties ==
    << <<"background-color", "black">>, <<"color", "white">>,
       <<"border-color", "white">> >>

\* lines 154-172: the declarations a cell of column col collects, in the
\* order in which the styler applies its steps
CellCss(col, val) ==
    LET rsi_cols == {c \in {"rsi_1m", "rsi_1h"} : c \in StyledColumns}
        price_cols == {c \in {"price_change_30m", "price_change_24h"} : c \in StyledColumns}
        s1 == IF col \in rsi_cols THEN style_rsi(val) ELSE <<>>
        s2 == s1 \o (IF col \in price_cols THEN style_price_change(val) ELSE <<>>)
    IN  s2 \o GeneralProperties

\* the value a property has in a cell: that of its last declaration
RECURSIVE Effective(_, _)
Effective(css, prop) ==
    IF css = <<>> THEN ""
    ELSE IF css[Len(css)][1] = prop THEN css[Len(css)][2]
    ELSE Effective(SubSeq(css, 1, Len(css) - 1), prop)

\* ------------------------------------------------------------------ state
VARIABLES
    last_refresh,   \* st.session_state.last_refresh
    data,           \* st.session_state.data (a frame)
    pc,             \* position of the current run of main()
    clicked,        \* the button whose click this run carries
    token_address,  \* content of the "Token Address" text input
    now,            \* time.time()
    remote,         \* addresses the service monitors
    price,          \* current_price the service reports at present
    messages,       \* st.success / st.error shown in this run
    rendered,       \* frames passed to st.dataframe in this run
    fetchResp,      \* answers to GET /tokens/status in this run
    addResp,        \* answers to POST /tokens in this run
    delResp,        \* answers to DELETE /tokens/{address} in this run
    checkedAt,      \* elapsed times seen by the check of line 202 in this run
    data0,          \* the cache when this run started
    last0,          \* last_refresh when this run started
    lastFetchAt,    \* times at which a fetch was issued (the latest one)
    pending,        \* a user action was handled and no table rendered since
    spc,            \* style_dataframe: "input" before, "styled" after
    cellCol,        \* the column of the cell that is styled
    cellRaw,        \* its raw value
    cellCss         \* the CSS declarations the styler gave it

mainVars == <<last_refresh, data, pc, clicked, token_address, now, remote,
              price, messages, rendered, fetchResp, addResp, delResp,
              checkedAt, data0, last0, lastFetchAt, pending>>

styleVars == <<spc, cellCol, cellRaw, cellCss>>

vars == <<mainVars, styleVars>>

Buttons == {"none", "Add Token"} \cup Addrs

\* lines 70-75 and the first run of the script
InitMain ==
    /\ last_refresh = 0
    /\ data = EmptyFrame
    /\ pc = "add_section"
    /\ clicked = "none"
    /\ token_address \in Addrs
    /\ now = StartTime
    /\ remote \in SUBSET Addrs
    /\ price \in Prices
    /\ messages = {}
    /\ rendered = <<>>
    /\ fetchResp = <<>>
    /\ addResp = <<>>
    /\ delResp = <<>>
    /\ checkedAt = <<>>
    /\ data0 = EmptyFrame
    /\ last0 = 0
    /\ lastFetchAt = <<>>
    /\ pending = FALSE

\* no cell is being styled
InitStyleIdle ==
    /\ spc = "input"
    /\ cellCol = "rsi_1m"
    /\ cellRaw = [kind |-> "none", n |-> 0]
    /\ cellCss = <<>>

Init == InitMain /\ InitStyleIdle

\* A new run of the script starts at the top of main() (lines 179-182); the
\* widget values it carries are those of the click, if any, that reached the
\* session while the previous run was sleeping or waiting for the service.
NewRun(b, a) ==
    /\ pc' = "add_section"
    /\ clicked' = b
    /\ token_address' = a
    /\ messages' = {}
    /\ rendered' = <<>>
    /\ fetchResp' = <<>>
    /\ addResp' = <<>>
    /\ delResp' = <<>>
    /\ checkedAt' = <<>>
    /\ data0' = data
    /\ last0' = last_refresh

\* ---------------------------------------------------- answers of the service
AddResponses == {Exc} \cup {Status(c) : c \in AddStatuses}
DeleteResponses == {Exc} \cup {Status(c) : c \in DeleteStatuses}
GetResponses(listed, pr) ==
    {Exc} \cup {Status(c) : c \in GetStatuses \ {200}}
          \cup {Body(200, "list", TokenList(listed, pr)), Body(200, "scalar", <<>>)}

\* ----------------------------------------------------------- add section
\* lines 193-196: add_token returned True
AddSucceeded(resp) ==
    /\ messages' = messages \cup {"Added"}
    /\ pc' = "add_rerun"
    /\ remote' = remote \cup {token_address}
    /\ UNCHANGED <<last_refresh, data>>

\* lines 197-198 with the cache invalidated after a failed add
AddFailedInvalidating(resp) ==
    /\ messages' = messages \cup (IF resp.exc THEN {"Error adding token"} ELSE {})
                            \cup {"Failed to add token"}
    /\ pc' = "refresh"
    /\ last_refresh' = 0
    /\ UNCHANGED <<data, remote>>

\* lines 57-59 and 197-198: add_token returned False
AddFailed(resp) ==
    /\ messages' = messages \cup (IF resp.exc THEN {"Error adding token"} ELSE {})
                            \cup {"Failed to add token"}
    /\ pc' = "refresh"
    /\ UNCHANGED <<last_refresh, data, remote>>

\* lines 185-198
AddSection ==
    /\ UNCHANGED styleVars
    /\ pc = "add_section"
    /\ IF clicked = "Add Token"
       THEN \E resp \in AddResponses :
              /\ addResp' = <<resp>>
              /\ pending' = TRUE
              /\ IF add_token(resp) THEN AddSucceeded(resp) ELSE AddFailed(resp)
       ELSE /\ pc' = "refresh"
            /\ UNCHANGED <<last_refresh, data, remote, messages, addResp, pending>>
    /\ UNCHANGED <<clicked, token_address, now, price, rendered, fetchResp,
                   delResp, checkedAt, data0, last0, lastFetchAt>>

\* ------------------------------------------------------------ refresh
\* lines 203-232: the fetch and the processing of what it returned
Fetch(resp) ==
    LET d == load_token_data(resp)
        raised == Truthy(d) /\ ProcessingRaises(d)
    IN  /\ fetchResp' = <<resp>>
        /\ lastFetchAt' = <<now>>
        /\ messages' = messages \cup load_token_data_error(resp)
                         \cup (IF raised THEN {"Error processing data"} ELSE {})
        /\ data' = SnapshotAfter(data, d)
        /\ last_refresh' = TimestampAfter(last_refresh, d, now)
        /\ pc' = IF raised THEN "returned" ELSE "display"

\* lines 201-232
Refresh ==
    /\ UNCHANGED styleVars
    /\ pc = "refresh"
    /\ checkedAt' = <<now - last_refresh>>
    /\ IF RefreshDue(now, last_refresh)
       THEN \E resp \in GetResponses(remote, price) : Fetch(resp)
       ELSE /\ pc' = "display"
            /\ UNCHANGED <<last_refresh, data, messages, fetchResp, lastFetchAt>>
    /\ UNCHANGED <<clicked, token_address, now, remote, price, rendered,
                   addResp, delResp, data0, last0, pending>>

\* ------------------------------------------------------------ display
\* lines 259-265: the Delete button of row `clicked` was pressed
DeleteClicked(resp) ==
    /\ delResp' = <<resp>>
    /\ pending' = TRUE
    /\ IF delete_token(resp)
       THEN /\ messages' = messages \cup {"Removed"}
            /\ pc' = "delete_rerun"
            /\ remote' = remote \ {clicked}
       ELSE /\ messages' = messages \cup (IF resp.exc THEN {"Error deleting token"} ELSE {})
                                    \cup {"Failed to delete token"}
            /\ pc' = "auto_refresh"
            /\ UNCHANGED remote

\* lines 234-285
Display ==
    /\ UNCHANGED styleVars
    /\ pc = "display"
    /\ IF Empty(data)
       THEN /\ pc' = "auto_refresh"
            /\ pending' = FALSE
            /\ UNCHANGED <<messages, rendered, delResp, remote>>
       ELSE \/ \* st.dataframe raises: lines 284-285
               /\ messages' = messages \cup {"Error displaying data"}
               /\ pc' = "auto_refresh"
               /\ UNCHANGED <<rendered, delResp, remote, pending>>
            \/ /\ rendered' = <<data>>
               /\ IF clicked \in RowAddrs(data)
                  THEN \E resp \in DeleteResponses : DeleteClicked(resp)
                  ELSE /\ pc' = "auto_refresh"
                       /\ pending' = FALSE
                       /\ UNCHANGED <<messages, delResp, remote>>
    /\ UNCHANGED <<last_refresh, data, clicked, token_address, now, price,
                   fetchResp, addResp, checkedAt, data0, last0, lastFetchAt>>

\* ------------------------------------------------------------ st.rerun()
\* lines 195-196, 262-263, 288-289: sleep, then st.rerun()
Rerun ==
    /\ UNCHANGED styleVars
    /\ pc \in {"add_rerun", "delete_rerun", "auto_refresh"}
    /\ \E b \in Buttons, a \in Addrs : NewRun(b, a)
    /\ UNCHANGED <<last_refresh, data, now, remote, price, lastFetchAt, pending>>

\* After the return of line 232 the script has finished; the next run is the
\* one a user interaction with a widget triggers.
UserInteraction ==
    /\ UNCHANGED styleVars
    /\ pc = "returned"
    /\ \E b \in Buttons, a \in Addrs : NewRun(b, a)
    /\ UNCHANGED <<last_refresh, data, now, remote, price, lastFetchAt, pending>>

\* ------------------------------------------------------------ environment
\* the clock advances (time.sleep, the duration of the HTTP calls)
Tick ==
    /\ UNCHANGED styleVars
    /\ \E d \in TimeSteps : now + d <= MaxTime /\ now' = now + d
    /\ UNCHANGED <<last_refresh, data, pc, clicked, token_address, remote,
                   price, messages, rendered, fetchResp, addResp, delResp,
                   checkedAt, data0, last0, lastFetchAt, pending>>

\* the service's token list changes without the dashboard
RemoteChange ==
    /\ UNCHANGED styleVars
    /\ \/ \E r \in SUBSET Addrs : r # remote /\ remote' = r /\ UNCHANGED price
       \/ \E p \in Prices : p # price /\ price' = p /\ UNCHANGED remote
    /\ UNCHANGED <<last_refresh, data, pc, clicked, token_address, now,
                   messages, rendered, fetchResp, addResp, delResp,
                   checkedAt, data0, last0, lastFetchAt, pending>>

Next ==
    \/ AddSection
    \/ Refresh
    \/ Display
    \/ Rerun
    \/ UserInteraction
    \/ Tick
    \/ RemoteChange

Spec == Init /\ [][Next]_vars

\* ------------------------------------------- style_dataframe on one cell
\* the cell is drawn from the columns and the values a cached frame can hold
InitStyle ==
    /\ InitMain
    /\ spc = "input"
    /\ cellCol \in StyledColumns
    /\ cellRaw \in RawCells
    /\ cellCss = <<>>

\* lines 95-172
style_dataframe ==
    /\ spc = "input"
    /\ spc' = "styled"
    /\ cellCss' = CellCss(cellCol, to_numeric(cellRaw))
    /\ UNCHANGED <<cellCol, cellRaw>>
    /\ UNCHANGED mainVars

NextStyle == style_dataframe

StyleSpec == InitStyle /\ [][NextStyle]_vars

\* ======================================================================
\* Properties
\* ======================================================================
FetchOk(r) == ~r.exc /\ r.status_code = 200
FetchErrors == {"Error loading data", "Failed to fetch token data"}

\* C1: in a run whose check of line 202 saw less than REFRESH_INTERVAL
\* seconds since last_refresh, no fetch is made, the cache is the one the
\* run started with, and whatever table is rendered is that snapshot,
\* whatever the service's token list is by then.
C1_StaleCache ==
    (checkedAt # <<>> /\ checkedAt[1] < REFRESH_INTERVAL) =>
        /\ fetchResp = <<>>
        /\ data = data0
        /\ last_refresh = last0
        /\ \A i \in 1..Len(rendered) : rendered[i] = data0

\* a fresh run that rendered the cached table although the service's list
\* has changed since
C1_Witness ==
    /\ checkedAt # <<>> /\ checkedAt[1] < REFRESH_INTERVAL
    /\ rendered = <<data0>>
    /\ data0.rows # ProcessData(TokenList(remote, price)).rows

\* C2: in a run in which the refresh is due and GET /tokens/status answers
\* 200 with a token list, the cached snapshot after the fetch holds exactly
\* the records of that list, the empty list included.
C2_SnapshotIsReturnedList ==
    (fetchResp # <<>> /\ FetchOk(fetchResp[1]) /\ fetchResp[1].tokens.kind = "list") =>
        data.rows = ProcessData(fetchResp[1].tokens.items).rows

\* C3: every execution of main() ends in st.rerun(): main() never finishes
\* by returning.
C3_AlwaysReruns == pc # "returned"

\* C4: when the fetch fails (exception or a status other than 200) an error
\* message is shown and the cached snapshot is the one the run started with.
C4_FailedFetchKeepsSnapshot ==
    (fetchResp # <<>> /\ ~FetchOk(fetchResp[1])) =>
        /\ messages \cap FetchErrors # {}
        /\ data = data0

\* a failed fetch in a run that started with a non-empty cache and went on
\* to render it
C4_Witness ==
    /\ fetchResp # <<>> /\ ~FetchOk(fetchResp[1])
    /\ ~Empty(data0)
    /\ rendered = <<data0>>

\* C5: a fetch is issued only if at least REFRESH_INTERVAL seconds have
\* passed since the previous fetch was issued, whether that one succeeded,
\* failed or returned no tokens.
C5_FetchOnlyAfterInterval ==
    [][(fetchResp = <<>> /\ fetchResp' # <<>>) =>
          (lastFetchAt = <<>> \/ now - lastFetchAt[1] >= REFRESH_INTERVAL)]_vars

\* C6: after the handling of an Add whose request failed (an exception or a
\* status other than 201) the error message is shown and the snapshot and
\* the last-fetch timestamp are what they were before the Add.
C6_FailedAddKeepsCache ==
    (pc = "refresh" /\ addResp # <<>>
        /\ (addResp[1].exc \/ addResp[1].status_code # 201)) =>
        /\ "Failed to add token" \in messages
        /\ data = data0
        /\ last_refresh = last0

\* an Add of an address the cache already lists was refused
C6_Witness ==
    /\ pc = "refresh" /\ addResp # <<>>
    /\ ~addResp[1].exc /\ addResp[1].status_code = 400
    /\ token_address \in RowAddrs(data)
    /\ last_refresh # 0

\* C7: the Add takes the success path (success message, rerun) exactly for
\* status 201 and the Delete exactly for status 200; for any other status
\* and for an exception the failure message is shown and the success path
\* is not taken.
C7_SuccessExactlyOnStatus ==
    /\ addResp # <<>> =>
         IF ~addResp[1].exc /\ addResp[1].status_code = 201
         THEN pc = "add_rerun" /\ "Added" \in messages
              /\ "Failed to add token" \notin messages
         ELSE pc # "add_rerun" /\ "Added" \notin messages
              /\ "Failed to add token" \in messages
    /\ delResp # <<>> =>
         IF ~delResp[1].exc /\ delResp[1].status_code = 200
         THEN pc = "delete_rerun" /\ "Removed" \in messages
              /\ "Failed to delete token" \notin messages
         ELSE pc # "delete_rerun" /\ "Removed" \notin messages
              /\ "Failed to delete token" \in messages

\* the service answered an Add with 200: the failure path was taken
C7_Witness ==
    /\ addResp # <<>> /\ ~addResp[1].exc /\ addResp[1].status_code = 200
    /\ "Failed to add token" \in messages

\* C8: once a user action has been handled, the table is rendered from the
\* cache again before a further user action is handled and before the
\* script stops.
C8_RedisplayBeforeNextAction ==
    pending => /\ pc # "returned"
               /\ ~(pc = "add_section" /\ clicked = "Add Token")

\* C9: after all styling steps, an RSI cell >= 70 has the background
\* #ff7f7f, an RSI cell in [60, 70) has #ffb07f, and an RSI cell below 60
\* or without a value has neither.
C9_RsiBandIsEffectiveBackground ==
    (spc = "styled" /\ cellCol \in {"rsi_1m", "rsi_1h"}) =>
        LET v == to_numeric(cellRaw)
            bg == Effective(cellCss, "background-color")
        IN  /\ (~v.nan /\ v.n >= 70) => bg = "#ff7f7f"
            /\ (~v.nan /\ v.n >= 60 /\ v.n < 70) => bg = "#ffb07f"
            /\ (v.nan \/ v.n < 60) => bg \notin {"#ff7f7f", "#ffb07f"}

====
